---------------------------- MODULE Spec2Model ----------------------------
(***************************************************************************)
(* A model of flask-app/app.py: one Flask application with a single route  *)
(* "/" (methods GET and POST) whose view function home() writes two or     *)
(* three INFO records to the root logger and returns a fixed JSON object   *)
(* with status 200, run by app.run(), the threaded development server.     *)
(*                                                                         *)
(* Text is modelled as a sequence of Unicode code points and a request     *)
(* body as a sequence of bytes, so that decoding, header-name              *)
(* normalisation and repr() are computed, not assumed.  Every request is   *)
(* served by a thread of its own (app.run() starts the threaded            *)
(* development server), and each statement of home() is one step of that   *)
(* thread.  The log is the sequence of records that pass the handler      *)
(* logging.basicConfig() installs on the root logger: those of home(),     *)
(* and those of the server (its start-up records and one access record     *)
(* for every request it answers), which reach the same handler from the    *)
(* logger "werkzeug".  Each record carries the thread that wrote it        *)
(* (LogRecord.thread) and its logger (LogRecord.name).                     *)
(***************************************************************************)
EXTENDS Integers, Sequences, FiniteSets, TLC

VARIABLES pc, req, resp, log

vars == <<pc, req, resp, log>>

---------------------------------------------------------------------------
(* Bounds of the model *)

\* number of requests (threads) the server receives in one behaviour
MaxRequests == 2
\* number of header fields on the wire of one request
MaxHdrs == 2
\* number of bytes in a request body
MaxBody == 2

Requests == 1..MaxRequests

---------------------------------------------------------------------------
(* Text literals, as code points *)

GET     == <<71, 69, 84>>
POST    == <<80, 79, 83, 84>>
HEAD    == <<72, 69, 65, 68>>
OPTIONS == <<79, 80, 84, 73, 79, 78, 83>>
DELETE  == <<68, 69, 76, 69, 84, 69>>
PUT     == <<80, 85, 84>>
PATCH   == <<80, 65, 84, 67, 72>>

Methods == {GET, POST, HEAD, OPTIONS, DELETE, PUT, PATCH}

\* "/" and "/x"
RootPath  == <<47>>
OtherPath == <<47, 120>>
Paths == {RootPath, OtherPath}

\* "X-Te" and "x-tE", the same field name in two spellings
NameCanon == <<88, 45, 84, 101>>
NameLower == <<120, 45, 116, 69>>
\* "Content-Type", which the environ holds under a key of its own
NameContentType == <<67, 111, 110, 116, 101, 110, 116, 45, 84, 121, 112, 101>>
\* "X_Te", a name with an underscore
NameUnderscore == <<88, 95, 84, 101>>
HeaderNames == {NameCanon, NameLower, NameContentType, NameUnderscore}
\* "v" and "w\v"
ValueV == <<118>>
ValueW == <<119, 92, 118>>
HeaderValues == {ValueV, ValueW}

\* "b", the lead byte 0xC3 and the continuation byte 0xA9 of U+00E9
BodyBytes == {98, 195, 169}

\* U+FFFD REPLACEMENT CHARACTER
ReplacementChar == 65533

RECURSIVE SeqsUpTo(_, _)
SeqsUpTo(S, n) ==
  IF n = 0 THEN {<<>>}
  ELSE LET shorter == SeqsUpTo(S, n - 1)
       IN  shorter \cup {Append(s, x) : s \in {t \in shorter : Len(t) = n - 1}, x \in S}

\* the header fields a request of the model is made of: the same name in
\* two spellings with two values, Content-Type with either value, and a
\* field whose name has an underscore
HeaderFields ==
  { <<NameLower, ValueV>>, <<NameCanon, ValueW>>,
    <<NameContentType, ValueV>>, <<NameContentType, ValueW>>,
    <<NameUnderscore, ValueV>> }

\* every request the model can send, one at a time
AllRequests ==
  [method : Methods, path : Paths,
   headers : SeqsUpTo(HeaderFields, MaxHdrs),
   body : SeqsUpTo(BodyBytes, MaxBody)]

NoRequest == [method |-> <<>>, path |-> <<>>, headers |-> <<>>, body |-> <<>>]
NoResponse == [status |-> 0, json |-> "none"]

---------------------------------------------------------------------------
(* Sequences *)

\* whether sub occurs in s as a contiguous run (Python's `sub in s`)
Contains(s, sub) ==
  \E i \in 0..(Len(s) - Len(sub)) : \A j \in 1..Len(sub) : s[i + j] = sub[j]

\* the sequences of ss, one after the other
RECURSIVE Flatten(_)
Flatten(ss) == IF ss = <<>> THEN <<>> ELSE Head(ss) \o Flatten(Tail(ss))

\* sep.join(parts)
RECURSIVE Join(_, _)
Join(sep, parts) ==
  IF parts = <<>> THEN <<>>
  ELSE IF Len(parts) = 1 THEN parts[1]
  ELSE parts[1] \o sep \o Join(sep, Tail(parts))

---------------------------------------------------------------------------
(* request.get_data(as_text=True): the body bytes decoded as UTF-8 *)

IsAscii(b)        == b < 128
IsContinuation(b) == b >= 128 /\ b <= 191
IsLead2(b)        == b >= 194 /\ b <= 223

DecodeFailed == [ok |-> FALSE, text |-> <<>>]

\* bytes.decode("utf-8", errors) for bytes below 0xE0 (sequences of one or
\* two bytes): an ill-formed byte is replaced by U+FFFD under "replace" and
\* raises UnicodeDecodeError under "strict"
RECURSIVE Utf8Decode(_, _)
Utf8Decode(b, errors) ==
  IF b = <<>> THEN [ok |-> TRUE, text |-> <<>>]
  ELSE LET b1 == Head(b)
           pair == Len(b) >= 2 /\ IsLead2(b1) /\ IsContinuation(b[2])
           cp == IF IsAscii(b1) THEN b1
                 ELSE IF pair THEN (b1 - 192) * 64 + (b[2] - 128)
                 ELSE ReplacementChar
           rest == Utf8Decode(IF pair THEN Tail(Tail(b)) ELSE Tail(b), errors)
       IN  IF ~IsAscii(b1) /\ ~pair /\ errors = "strict" THEN DecodeFailed
           ELSE IF ~rest.ok THEN DecodeFailed
           ELSE [ok |-> TRUE, text |-> <<cp>> \o rest.text]

\* a variant that decodes strictly, as get_data(as_text=True) would with
\* errors="strict"
GetDataStrict(body) == Utf8Decode(body, "strict")

\* a variant that does not decode: str() of the bytes is not the text
GetDataRaw(body) == [ok |-> TRUE, text |-> <<98, 39>> \o body \o <<39>>]

GetDataAsText(body) == Utf8Decode(body, "replace")

---------------------------------------------------------------------------
(* request.headers: the header fields as the WSGI environ holds them *)

IsLowerLetter(c) == c >= 97 /\ c <= 122
IsUpperLetter(c) == c >= 65 /\ c <= 90
IsCased(c) == IsLowerLetter(c) \/ IsUpperLetter(c)
Upper(c) == IF IsLowerLetter(c) THEN c - 32 ELSE c
Lower(c) == IF IsUpperLetter(c) THEN c + 32 ELSE c

\* str.title(): a cased character is upper-cased unless it follows a cased
\* character, and lower-cased if it does
Title(s) ==
  [i \in 1..Len(s) |->
     IF ~IsCased(s[i]) THEN s[i]
     ELSE IF i > 1 /\ IsCased(s[i - 1]) THEN Lower(s[i])
     ELSE Upper(s[i])]

\* "CONTENT_TYPE", "CONTENT_LENGTH" and "HTTP_"
ContentTypeKey == <<67, 79, 78, 84, 69, 78, 84, 95, 84, 89, 80, 69>>
ContentLengthKey == <<67, 79, 78, 84, 69, 78, 84, 95, 76, 69, 78, 71, 84, 72>>
HttpPrefix == <<72, 84, 84, 80, 95>>
UnprefixedKeys == {ContentTypeKey, ContentLengthKey}

\* the key of a header field in the environ: name.upper().replace("-", "_"),
\* with "HTTP_" before it unless it is CONTENT_TYPE or CONTENT_LENGTH
EnvironKey(name) ==
  LET k == [i \in 1..Len(name) |-> IF name[i] = 45 THEN 95 ELSE Upper(name[i])]
  IN  IF k \in UnprefixedKeys THEN k ELSE HttpPrefix \o k

\* the header name request.headers gives for a key of the environ:
\* key[5:].replace("_", "-").title() for an HTTP_* key,
\* key.replace("_", "-").title() for CONTENT_TYPE and CONTENT_LENGTH
HeaderNameOfKey(key) ==
  LET k == IF key \in UnprefixedKeys THEN key ELSE SubSeq(key, 6, Len(key))
  IN  Title([i \in 1..Len(k) |-> IF k[i] = 95 THEN 45 ELSE k[i]])

\* an ordered mapping as a sequence of <<key, value>>: setting a key that
\* is present keeps its place
HasKey(d, k) == \E i \in 1..Len(d) : d[i][1] = k
ValueOf(d, k) == d[CHOOSE i \in 1..Len(d) : d[i][1] = k][2]
SetKey(d, k, v) ==
  IF HasKey(d, k)
  THEN [i \in 1..Len(d) |-> IF d[i][1] = k THEN <<k, v>> ELSE d[i]]
  ELSE Append(d, <<k, v>>)

\* dict(pairs)
RECURSIVE Dict(_)
Dict(pairs) ==
  IF pairs = <<>> THEN <<>>
  ELSE LET n == Len(pairs)
       IN  SetKey(Dict(SubSeq(pairs, 1, n - 1)), pairs[n][1], pairs[n][2])

\* whether a field name holds an underscore
HasUnderscore(name) == \E i \in 1..Len(name) : name[i] = 95

\* a variant of the environ in which a repeated field replaces the value
\* received before it, whatever its name
EnvironLastWins(headers) ==
  LET kept == SelectSeq(headers, LAMBDA f : ~HasUnderscore(f[1]))
  IN  Dict([i \in 1..Len(kept) |-> <<EnvironKey(kept[i][1]), kept[i][2]>>])

\* the header entries of the environ the server of app.run() builds from
\* the fields in the order received: a field whose name holds "_" is
\* skipped; CONTENT_TYPE and CONTENT_LENGTH take the value received last;
\* under any other key the values are joined by ","
RECURSIVE Environ(_)
Environ(headers) ==
  IF headers = <<>> THEN <<>>
  ELSE LET n == Len(headers)
           before == Environ(SubSeq(headers, 1, n - 1))
           k == EnvironKey(headers[n][1])
           v == headers[n][2]
       IN  IF HasUnderscore(headers[n][1]) THEN before
           ELSE IF k \notin UnprefixedKeys /\ HasKey(before, k)
           THEN SetKey(before, k, ValueOf(before, k) \o <<44>> \o v)
           ELSE SetKey(before, k, v)

\* iterating request.headers yields (name, value) for each HTTP_* entry
\* and for CONTENT_TYPE and CONTENT_LENGTH when their value is not empty
RequestHeaders(headers) ==
  LET e == SelectSeq(Environ(headers),
                     LAMBDA kv : kv[1] \in UnprefixedKeys => kv[2] # <<>>)
  IN  [i \in 1..Len(e) |-> <<HeaderNameOfKey(e[i][1]), e[i][2]>>]

\* repr() of a str of printable characters: quoted with ' unless it holds
\* a ' and no ", with backslash and the quote itself escaped by a backslash
Repr(s) ==
  LET q == IF (\E i \in 1..Len(s) : s[i] = 39) /\ ~(\E i \in 1..Len(s) : s[i] = 34)
           THEN 34 ELSE 39
      Escaped(c) == IF c = 92 \/ c = q THEN <<92, c>> ELSE <<c>>
  IN  <<q>> \o Flatten([i \in 1..Len(s) |-> Escaped(s[i])]) \o <<q>>

\* the text of Repr(s) between its quotes
ReprBody(s) == LET quoted == Repr(s) IN SubSeq(quoted, 2, Len(quoted) - 1)

\* repr() of a dict of str to str
DictRepr(d) ==
  <<123>> \o
  Join(<<44, 32>>, [i \in 1..Len(d) |-> Repr(d[i][1]) \o <<58, 32>> \o Repr(d[i][2])]) \o
  <<125>>

---------------------------------------------------------------------------
(* The route and the view function *)

\* a variant of the route that accepts every method
AnyMethodRoute == Methods

\* methods=["GET", "POST"]
ViewMethods == {GET, POST}

\* the methods of the rule: Flask adds HEAD to a rule that accepts GET, and
\* OPTIONS, which it answers itself, to every rule
RouteMethods ==
  ViewMethods \cup (IF GET \in ViewMethods THEN {HEAD} ELSE {}) \cup {OPTIONS}

\* what the URL map does with a request
Match(q) ==
  IF q.path # RootPath THEN "not_found"
  ELSE IF q.method \notin RouteMethods THEN "method_not_allowed"
  ELSE IF q.method = OPTIONS THEN "options"
  ELSE "view"

\* the JSON object home() returns, as its members
HelloJson == << <<"message", "Hello from Flask!">> >>
NoJson == <<>>

StatusOK == 200

\* a variant of the return statement with another status
ReturnCreated(q) == [status |-> 201, json |-> HelloJson]

\* return {"message": "Hello from Flask!"}, 200; the body of the answer to
\* a HEAD request is not sent
ViewResponse(q) ==
  [status |-> StatusOK, json |-> IF q.method = HEAD THEN NoJson ELSE HelloJson]

\* the last request to arrive
Latest == CHOOSE r \in Requests :
            pc[r] # "idle" /\ \A s \in Requests : pc[s] # "idle" => s <= r

\* a variant in which `request` is one object of the process, overwritten
\* by each arriving request
SharedRequest(r) == req[Latest]

\* `request`: the request of the thread that evaluates it
CurrentRequest(r) == req[r]

\* logging.info(msg, *args) with the format basicConfig() installs:
\* "INFO:root:" and the message
InfoLine(message) == <<73, 78, 70, 79, 58, 114, 111, 111, 116, 58>> \o message

\* "Incoming request: %s %s" % (request.method, request.path)
RequestLine(q) ==
  InfoLine(<<73, 110, 99, 111, 109, 105, 110, 103, 32, 114, 101, 113, 117,
             101, 115, 116, 58, 32>> \o q.method \o <<32>> \o q.path)

\* str(dict(request.headers)), tabulated over the header lists of the
\* model so that it is computed once for each
HeadersText ==
  [h \in SeqsUpTo(HeaderFields, MaxHdrs) |-> DictRepr(Dict(RequestHeaders(h)))]

\* "Headers: %s" % dict(request.headers)
HeadersLine(q) ==
  InfoLine(<<72, 101, 97, 100, 101, 114, 115, 58, 32>> \o HeadersText[q.headers])

\* "Payload: %s" % text
PayloadLine(text) ==
  InfoLine(<<80, 97, 121, 108, 111, 97, 100, 58, 32>> \o text)

\* a record of the logger "werkzeug", which has no handler of its own and
\* hands its records to the handler of the root logger: "INFO:werkzeug:"
\* and the message
ServerLine(message) == <<73, 78, 70, 79, 58, 119, 101, 114, 107, 122, 101, 117, 103, 58>> \o message

\* str(status)
StatusText(status) ==
  <<48 + (status \div 100), 48 + ((status \div 10) % 10), 48 + (status % 10)>>

\* the styles the server gives the request line of an access record
StyleOf(status) ==
  IF (status \div 100) = 1 THEN <<"bold">>
  ELSE IF status = 200 THEN <<>>
  ELSE IF status = 304 THEN <<"cyan">>
  ELSE IF (status \div 100) = 3 THEN <<"green">>
  ELSE IF status = 404 THEN <<"yellow">>
  ELSE IF (status \div 100) = 4 THEN <<"bold", "red">>
  ELSE <<"bold", "magenta">>

\* the digits of the terminal code of a style
StyleCode(style) ==
  CASE style = "bold" -> <<49>>
    [] style = "red" -> <<51, 49>>
    [] style = "green" -> <<51, 50>>
    [] style = "yellow" -> <<51, 51>>
    [] style = "magenta" -> <<51, 53>>
    [] style = "cyan" -> <<51, 54>>

\* value with each style's escape sequence put before it in turn and the
\* reset sequence after it; a value without styles is left as it is
RECURSIVE Styled(_, _)
Styled(value, styles) ==
  IF styles = <<>> THEN value
  ELSE LET n == Len(styles)
           inner == IF n = 1 THEN value \o <<27, 91, 48, 109>>
                    ELSE Styled(value, SubSeq(styles, 1, n - 1))
       IN  <<27, 91>> \o StyleCode(styles[n]) \o <<109>> \o inner

\* the client of the model, "127.0.0.1", the time its requests are
\* logged at, "31/Oct/2026 00:00:00", and its protocol, "HTTP/1.1"
ClientAddress == <<49, 50, 55, 46, 48, 46, 48, 46, 49>>
DateStamp == <<51, 49, 47, 79, 99, 116, 47, 50, 48, 50, 54, 32, 48, 48, 58, 48, 48, 58,
    48, 48>>
HttpVersion == <<72, 84, 84, 80, 47, 49, 46, 49>>

\* a variant of the access record without the request line
AccessLineNoRequest(q, status) ==
  ServerLine(ClientAddress \o <<32, 45, 32, 45, 32, 91>> \o DateStamp \o <<93, 32>>
             \o StatusText(status) \o <<32, 45>>)

\* the access record of the server for a request answered with status:
\* '%s - - [%s] "%s" %s %s' of the client, the time, the request line,
\* the status and "-"
AccessLine(q, status) ==
  ServerLine(ClientAddress \o <<32, 45, 32, 45, 32, 91>> \o DateStamp \o <<93, 32, 34>>
             \o Styled(q.method \o <<32>> \o q.path \o <<32>> \o HttpVersion,
                       StyleOf(status))
             \o <<34, 32>> \o StatusText(status) \o <<32, 45>>)

\* the record Flask's logger "app" writes when a view raises: "ERROR:app:"
\* and "Exception on <path> [<method>]" (the traceback follows it)
ErrorLine(q) ==
  <<69, 82, 82, 79, 82, 58, 97, 112, 112, 58, 69, 120, 99, 101, 112, 116,
    105, 111, 110, 32, 111, 110, 32>> \o q.path
  \o <<32, 91>> \o q.method \o <<93>>

\* the records the server writes from the main thread when it starts: the
\* warning with the addresses it listens on (that of the host's interface
\* is the one of the model, 192.0.2.1), and the hint how to stop it
StartupRecords ==
  << [thread |-> 0, name |-> "werkzeug", text |-> ServerLine(
       <<27, 91, 51, 49, 109, 27, 91, 49, 109, 87, 65, 82, 78, 73, 78, 71,
         58, 32, 84, 104, 105, 115, 32, 105, 115, 32, 97, 32, 100, 101, 118,
         101, 108, 111, 112, 109, 101, 110, 116, 32, 115, 101, 114, 118,
         101, 114, 46, 32, 68, 111, 32, 110, 111, 116, 32, 117, 115, 101,
         32, 105, 116, 32, 105, 110, 32, 97, 32, 112, 114, 111, 100, 117,
         99, 116, 105, 111, 110, 32, 100, 101, 112, 108, 111, 121, 109, 101,
         110, 116, 46, 32, 85, 115, 101, 32, 97, 32, 112, 114, 111, 100,
         117, 99, 116, 105, 111, 110, 32, 87, 83, 71, 73, 32, 115, 101, 114,
         118, 101, 114, 32, 105, 110, 115, 116, 101, 97, 100, 46, 27, 91,
         48, 109, 10, 32, 42, 32, 82, 117, 110, 110, 105, 110, 103, 32, 111,
         110, 32, 97, 108, 108, 32, 97, 100, 100, 114, 101, 115, 115, 101,
         115, 32, 40, 48, 46, 48, 46, 48, 46, 48, 41, 10, 32, 42, 32, 82,
         117, 110, 110, 105, 110, 103, 32, 111, 110, 32, 104, 116, 116, 112,
         58, 47, 47, 49, 50, 55, 46, 48, 46, 48, 46, 49, 58, 53, 48, 48, 48,
         10, 32, 42, 32, 82, 117, 110, 110, 105, 110, 103, 32, 111, 110, 32,
         104, 116, 116, 112, 58, 47, 47, 49, 57, 50, 46, 48, 46, 50, 46, 49,
         58, 53, 48, 48, 48>>)],
     [thread |-> 0, name |-> "werkzeug", text |-> ServerLine(
       <<27, 91, 51, 51, 109, 80, 114, 101, 115, 115, 32, 67, 84, 82, 76,
         43, 67, 32, 116, 111, 32, 113, 117, 105, 116, 27, 91, 48, 109>>)] >>

\* a variant in which a record replaces the record written last
EmitOverwrite(r, name, text) ==
  log' = IF log = <<>> THEN <<[thread |-> r, name |-> name, text |-> text]>>
         ELSE [log EXCEPT ![Len(log)] = [thread |-> r, name |-> name, text |-> text]]

\* the root logger's handler writes one record, after those written before
Emit(r, name, text) ==
  log' = Append(log, [thread |-> r, name |-> name, text |-> text])

---------------------------------------------------------------------------
(* The state machine *)

TypeOK ==
  /\ pc \in [Requests -> {"idle", "L11", "L12", "L13", "L14", "L15", "done"}]
  /\ \A r \in Requests : req[r] \in AllRequests \cup {NoRequest}
  /\ \A r \in Requests : resp[r].status \in {0, 200, 404, 405, 500}
  /\ \A i \in 1..Len(log) :
       log[i].thread \in {0} \cup Requests /\ log[i].name \in {"root", "werkzeug", "app"}

Init ==
  /\ pc = [r \in Requests |-> "idle"]
  /\ req = [r \in Requests |-> NoRequest]
  /\ resp = [r \in Requests |-> NoResponse]
  /\ log = StartupRecords

\* the server sends the answer to request q: the thread r that serves it
\* writes the access record, then the answer goes to the client
Send(r, q, answer) ==
  /\ Emit(r, "werkzeug", AccessLine(q, answer.status))
  /\ resp' = [resp EXCEPT ![r] = answer]
  /\ pc' = [pc EXCEPT ![r] = "done"]

\* request r arrives (requests are numbered in the order they arrive), a
\* thread is started for it and the URL map routes it: to home(), or to
\* the automatic OPTIONS answer or 404 / 405, which the framework makes
\* and the server sends without running home()
Dispatch(r, R) ==
  /\ pc[r] = "idle"
  /\ IF r = 1 THEN TRUE ELSE pc[r - 1] # "idle"
  /\ \E q \in R :
       /\ req' = [req EXCEPT ![r] = q]
       /\ LET m == Match(q)
          IN  IF m = "view"
              THEN /\ pc' = [pc EXCEPT ![r] = "L11"]
                   /\ UNCHANGED <<resp, log>>
              ELSE Send(r, q, [status |-> IF m = "options" THEN 200
                                          ELSE IF m = "method_not_allowed" THEN 405
                                          ELSE 404,
                               json |-> NoJson])

\* line 11
LogRequest(r) ==
  /\ pc[r] = "L11"
  /\ Emit(r, "root", RequestLine(CurrentRequest(r)))
  /\ pc' = [pc EXCEPT ![r] = "L12"]
  /\ UNCHANGED <<req, resp>>

\* line 12
LogHeaders(r) ==
  /\ pc[r] = "L12"
  /\ Emit(r, "root", HeadersLine(CurrentRequest(r)))
  /\ pc' = [pc EXCEPT ![r] = "L13"]
  /\ UNCHANGED <<req, resp>>

\* a variant of line 13 that takes the branch whatever the method
TestMethodAlways(r) ==
  /\ pc[r] = "L13"
  /\ pc' = [pc EXCEPT ![r] = "L14"]
  /\ UNCHANGED <<req, resp, log>>

\* line 13
TestMethod(r) ==
  /\ pc[r] = "L13"
  /\ pc' = [pc EXCEPT ![r] =
              IF CurrentRequest(r).method = POST THEN "L14" ELSE "L15"]
  /\ UNCHANGED <<req, resp, log>>

\* line 14; an exception raised by get_data() is logged by the framework,
\* which makes the 500 answer the server sends
LogPayload(r) ==
  /\ pc[r] = "L14"
  /\ LET d == GetDataAsText(CurrentRequest(r).body)
     IN  IF d.ok
         THEN /\ Emit(r, "root", PayloadLine(d.text))
              /\ pc' = [pc EXCEPT ![r] = "L15"]
              /\ resp' = resp
         ELSE /\ log' = log \o << [thread |-> r, name |-> "app",
                                   text |-> ErrorLine(CurrentRequest(r))],
                                  [thread |-> r, name |-> "werkzeug",
                                   text |-> AccessLine(req[r], 500)] >>
              /\ pc' = [pc EXCEPT ![r] = "done"]
              /\ resp' = [resp EXCEPT ![r] = [status |-> 500, json |-> NoJson]]
  /\ req' = req

\* a variant in which home() may return before it has logged the headers
ReturnEarly(r) ==
  /\ pc[r] \in {"L12", "L15"}
  /\ req' = req
  /\ Send(r, req[r], ViewResponse(CurrentRequest(r)))

\* line 15: home() returns, the framework makes the answer of what it
\* returns and the server sends it
Return(r) ==
  /\ pc[r] = "L15"
  /\ req' = req
  /\ Send(r, req[r], ViewResponse(CurrentRequest(r)))

\* one step of home() in the thread of request r
Step(r) ==
  LogRequest(r) \/ LogHeaders(r) \/ TestMethod(r) \/ LogPayload(r) \/ Return(r)

\* the requests of the concurrent server: a POST with a header in another
\* spelling and an ill-formed body, a GET with a header, a HEAD, a method
\* the route does not accept and a path no route matches
SmallRequests ==
  { [method |-> POST, path |-> RootPath, headers |-> << <<NameLower, ValueV>> >>, body |-> <<98, 195>>],
    [method |-> GET, path |-> RootPath, headers |-> << <<NameCanon, ValueW>> >>, body |-> <<>>],
    [method |-> HEAD, path |-> RootPath, headers |-> <<>>, body |-> <<>>],
    [method |-> DELETE, path |-> RootPath, headers |-> <<>>, body |-> <<>>],
    [method |-> GET, path |-> OtherPath, headers |-> <<>>, body |-> <<>>] }

\* the server: requests arrive and are served concurrently, a thread each
Next ==
  \E r \in Requests :
    \/ Dispatch(r, SmallRequests)
    \/ LogRequest(r)
    \/ LogHeaders(r)
    \/ TestMethod(r)
    \/ LogPayload(r)
    \/ Return(r)

Spec == Init /\ [][Next]_vars

\* one request, any of AllRequests
NextOne ==
  \/ Dispatch(1, AllRequests)
  \/ LogRequest(1)
  \/ LogHeaders(1)
  \/ TestMethod(1)
  \/ LogPayload(1)
  \/ Return(1)

SpecOne == Init /\ [][NextOne]_vars

\* the thread of the request is scheduled until home() has returned
LiveOne == SpecOne /\ WF_vars(Step(1))

---------------------------------------------------------------------------
(* What the claims speak of *)

\* the texts of the records the thread of request r has written, in order
RecordsOf(r) ==
  LET own == SelectSeq(log, LAMBDA e : e.thread = r)
  IN  [i \in 1..Len(own) |-> own[i].text]

\* the texts home() has written for request r, in order: the records its
\* thread has written to the root logger
LinesOf(r) ==
  LET own == SelectSeq(log, LAMBDA e : e.thread = r /\ e.name = "root")
  IN  [i \in 1..Len(own) |-> own[i].text]

\* the records of the threads that serve requests, in the order written
RequestLog == SelectSeq(log, LAMBDA e : e.thread # 0)

Arrived(r) == pc[r] # "idle"
Done(r) == pc[r] = "done"
AtRoot(r, methods) == Arrived(r) /\ req[r].path = RootPath /\ req[r].method \in methods

\* status 200 with the body {"message": "Hello from Flask!"}
HelloResponse == [status |-> 200, json |-> << <<"message", "Hello from Flask!">> >>]
\* status 200 with no body
EmptyOkResponse == [status |-> 200, json |-> <<>>]

\* "INFO:root:", "Incoming request: ", "Headers: " and "Payload: "
InfoTag == <<73, 78, 70, 79, 58, 114, 111, 111, 116, 58>>
RequestTag == <<73, 110, 99, 111, 109, 105, 110, 103, 32, 114, 101, 113, 117, 101, 115, 116, 58, 32>>
HeadersTag == <<72, 101, 97, 100, 101, 114, 115, 58, 32>>
PayloadTag == <<80, 97, 121, 108, 111, 97, 100, 58, 32>>
\* "INFO:werkzeug:"
ServerTag == <<73, 78, 70, 79, 58, 119, 101, 114, 107, 122, 101, 117, 103, 58>>

\* whether s begins with p, and whether it ends with p
StartsWith(s, p) == Len(s) >= Len(p) /\ SubSeq(s, 1, Len(p)) = p
EndsWith(s, p) == Len(s) >= Len(p) /\ SubSeq(s, Len(s) - Len(p) + 1, Len(s)) = p

IsRequestLine(l) == StartsWith(l, InfoTag \o RequestTag)
IsHeadersLine(l) == StartsWith(l, InfoTag \o HeadersTag)
IsPayloadLine(l) == StartsWith(l, InfoTag \o PayloadTag)

\* whether l is an access record of the server for request q answered
\* with status: it ends with the request line of q between quotes (plain,
\* or followed by the sequence that ends a style), the status and "-"
IsAccessRecord(l, q, status) ==
  LET line == q.method \o <<32>> \o q.path \o <<32, 72, 84, 84, 80, 47, 49, 46, 49>>
      tail == <<34, 32>> \o StatusText(status) \o <<32, 45>>
  IN  /\ StartsWith(l, ServerTag)
      /\ \/ EndsWith(l, <<34>> \o line \o tail)
         \/ EndsWith(l, line \o <<27, 91, 48, 109>> \o tail)

\* the body as text, ill-formed bytes replaced by U+FFFD (tabulated over
\* the bodies of the model)
BodyTexts == [b \in SeqsUpTo(BodyBytes, MaxBody) |-> Utf8Decode(b, "replace").text]
BodyText(q) == BodyTexts[q.body]
WellFormed(q) == Utf8Decode(q.body, "strict").ok

\* a header name in title case and a header value as repr() writes it
\* (tabulated over the names and values of the model)
TitleOf == [n \in HeaderNames |-> Title(n)]
ReprBodyOf == [v \in HeaderValues |-> ReprBody(v)]

---------------------------------------------------------------------------
(* C1: every GET request to "/", whatever its headers and body, is served  *)
(* by home() to its end and answered with status 200 and the JSON body     *)
(* {"message": "Hello from Flask!"}.                                       *)
C1_GetRootOk ==
  /\ [](\A r \in Requests :
          AtRoot(r, {GET}) => resp[r] = IF Done(r) THEN HelloResponse ELSE NoResponse)
  /\ AtRoot(1, {GET}) ~> (Done(1) /\ resp[1] = HelloResponse)

C1_Witness ==
  /\ AtRoot(1, {GET}) /\ Done(1)
  /\ req[1].headers # <<>> /\ req[1].body # <<>>
  /\ resp[1] = HelloResponse

(* C2: every POST request to "/" with body B is answered with status 200   *)
(* and the same JSON body as a GET, and has logged a payload line that     *)
(* contains B decoded as text.                                             *)
C2_PostRootOkAndPayloadLogged ==
  \A r \in Requests :
    (AtRoot(r, {POST}) /\ Done(r)) =>
      /\ resp[r] = HelloResponse
      /\ \E i \in 1..Len(LinesOf(r)) :
           /\ IsPayloadLine(LinesOf(r)[i])
           /\ Contains(LinesOf(r)[i], PayloadTag \o BodyText(req[r]))

C2_Witness ==
  /\ AtRoot(1, {POST}) /\ Done(1)
  /\ req[1].body = <<98, 195>>
  /\ resp[1] = HelloResponse
  /\ \E i \in 1..Len(LinesOf(1)) : Contains(LinesOf(1)[i], PayloadTag \o <<98, ReplacementChar>>)

\* the log holds a record of request r with its method and its path
MethodAndPathLogged(r) ==
  \E i \in 1..Len(RecordsOf(r)) :
    Contains(RecordsOf(r)[i], req[r].method \o <<32>> \o req[r].path)

(* C3: for any request received by the server, whatever its method and     *)
(* path and whether or not a route matches it, the log holds a line with   *)
(* its method and path once it is answered; for a request that reaches     *)
(* home() the first line home() writes holds them already.                 *)
C3_AnyRequestLogged ==
  \A r \in Requests :
    /\ Done(r) => MethodAndPathLogged(r)
    /\ (AtRoot(r, {GET, POST, HEAD}) /\ pc[r] # "L11") =>
         /\ Len(LinesOf(r)) >= 1
         /\ Contains(LinesOf(r)[1], req[r].method \o <<32>> \o req[r].path)

C3_Witness ==
  /\ Done(1) /\ req[1].method = PATCH /\ req[1].path = OtherPath
  /\ LinesOf(1) = <<>>
  /\ MethodAndPathLogged(1)

(* C4, as claimed: every request to "/" whose method is neither GET nor    *)
(* POST (DELETE, PUT, PATCH, and also HEAD and OPTIONS) is rejected by the *)
(* routing layer: its status is not 200, home() is not run and no log line *)
(* is written for it.                                                      *)
C4_NonGetPostRejected ==
  \A r \in Requests :
    (Arrived(r) /\ req[r].path = RootPath /\ req[r].method \notin {GET, POST}) =>
      /\ Done(r)
      /\ resp[r].status # 200
      /\ RecordsOf(r) = <<>>

(* C4: every request to "/" whose method is none of GET, POST, HEAD and    *)
(* OPTIONS (DELETE, PUT, PATCH) is rejected by the routing layer with      *)
(* status 405 without running home(), so that none of the lines of home()  *)
(* is written for it; the one record the log gets for it is the access     *)
(* record of the server, with its method, its path and 405.  An OPTIONS    *)
(* request is answered 200 by the framework, also without running home();  *)
(* its one record is the access record with 200.  A HEAD request is routed *)
(* to home(): it writes the method/path and headers lines and is answered  *)
(* 200 without a body, and its access record follows.                      *)
C4_UnsupportedRejected ==
  \A r \in Requests :
    /\ (Arrived(r) /\ req[r].path = RootPath
          /\ req[r].method \notin {GET, POST, HEAD, OPTIONS}) =>
         /\ Done(r)
         /\ resp[r] = [status |-> 405, json |-> <<>>]
         /\ LinesOf(r) = <<>>
         /\ Len(RecordsOf(r)) = 1
         /\ IsAccessRecord(RecordsOf(r)[1], req[r], 405)
    /\ AtRoot(r, {OPTIONS}) =>
         /\ Done(r)
         /\ resp[r] = EmptyOkResponse
         /\ LinesOf(r) = <<>>
         /\ Len(RecordsOf(r)) = 1
         /\ IsAccessRecord(RecordsOf(r)[1], req[r], 200)
    /\ AtRoot(r, {HEAD}) =>
         /\ resp[r] = IF Done(r) THEN EmptyOkResponse ELSE NoResponse
         /\ Done(r) =>
              /\ Len(LinesOf(r)) = 2
              /\ IsRequestLine(LinesOf(r)[1]) /\ IsHeadersLine(LinesOf(r)[2])
              /\ Len(RecordsOf(r)) = 3
              /\ IsAccessRecord(RecordsOf(r)[3], req[r], 200)

C4_Witness ==
  /\ AtRoot(1, {DELETE}) /\ Done(1)
  /\ resp[1].status = 405
  /\ LinesOf(1) = <<>>
  /\ Len(RecordsOf(1)) = 1

\* the headers line of request r, once written
HeadersLineOf(r) == LinesOf(r)[2]

\* "Content-Length"
NameContentLength == <<67, 111, 110, 116, 101, 110, 116, 45, 76, 101, 110, 103, 116, 104>>

\* whether two field names differ in the case of their letters at most
SameName(a, b) == Len(a) = Len(b) /\ \A i \in 1..Len(a) : Upper(a[i]) = Upper(b[i])

\* whether n is a spelling of Content-Type or Content-Length
IsContentName(n) == SameName(n, NameContentType) \/ SameName(n, NameContentLength)

\* the values of the fields of h that have the name n in any spelling, in
\* the order received
ValuesOf(h, n) ==
  LET same == SelectSeq(h, LAMBDA f : SameName(f[1], n))
  IN  [i \in 1..Len(same) |-> same[i][2]]

\* the value the log is to show under the name n: the values received
\* under it joined by ",", or for Content-Type and Content-Length the last
LoggedValue(h, n) ==
  LET vs == ValuesOf(h, n)
  IN  IF IsContentName(n) THEN vs[Len(vs)] ELSE Join(<<44>>, vs)

(* C5, as claimed: the headers line of a handled GET or POST request holds *)
(* the name N and the value V of every header field of the request, as     *)
(* sent.                                                                   *)
C5_HeaderLoggedAsSent ==
  \A r \in Requests :
    (AtRoot(r, {GET, POST}) /\ Len(LinesOf(r)) >= 2) =>
      \A i \in 1..Len(req[r].headers) :
        /\ Contains(HeadersLineOf(r), req[r].headers[i][1])
        /\ Contains(HeadersLineOf(r), req[r].headers[i][2])

(* C5: the headers line of a handled GET or POST request holds, for every  *)
(* header field N: V of the request whose name has no underscore, the      *)
(* name N in title case between quotes (X-Te for x-tE), followed by the    *)
(* value logged under that name as repr() writes it (between quotes, a     *)
(* backslash doubled).  The value logged under a name is made of all the   *)
(* values received under it in any spelling, joined by "," in the order    *)
(* received, so that V itself is in the line; but under Content-Type and   *)
(* Content-Length it is the value received last alone.  A field whose      *)
(* name has an underscore is not logged.                                   *)
C5_HeaderLoggedNormalised ==
  \A r \in Requests :
    (AtRoot(r, {GET, POST}) /\ Len(LinesOf(r)) >= 2) =>
      /\ IsHeadersLine(HeadersLineOf(r))
      /\ \A i \in 1..Len(req[r].headers) :
           LET n == req[r].headers[i][1]
               v == req[r].headers[i][2]
           IN  IF HasUnderscore(n)
               THEN ~Contains(HeadersLineOf(r), <<39>> \o TitleOf[n] \o <<39>>)
               ELSE /\ Contains(HeadersLineOf(r),
                                <<39>> \o TitleOf[n] \o <<39, 58, 32>>
                                \o Repr(LoggedValue(req[r].headers, n)))
                    /\ ~IsContentName(n) => Contains(HeadersLineOf(r), ReprBodyOf[v])

C5_Witness ==
  /\ AtRoot(1, {GET}) /\ Len(LinesOf(1)) >= 2
  /\ req[1].headers = << <<NameLower, ValueV>>, <<NameCanon, ValueW>> >>
  /\ Contains(HeadersLineOf(1), <<39>> \o NameCanon \o <<39, 58, 32, 39>> \o ValueV
                                 \o <<44, 119, 92, 92, 118, 39>>)

(* C6: a POST to "/" whose body is not valid UTF-8 does not fail: the      *)
(* payload line is written with the ill-formed bytes replaced by U+FFFD,   *)
(* the answer is status 200 with the fixed JSON body, and no request is    *)
(* ever answered with an error raised by home().                           *)
C6_MalformedBodyServed ==
  \A r \in Requests :
    /\ resp[r].status # 500
    /\ (AtRoot(r, {POST}) /\ ~WellFormed(req[r])) =>
         /\ resp[r] = IF Done(r) THEN HelloResponse ELSE NoResponse
         /\ Done(r) =>
              /\ Len(LinesOf(r)) = 3
              /\ LinesOf(r)[3] = InfoTag \o PayloadTag \o BodyText(req[r])

C6_Witness ==
  /\ AtRoot(1, {POST}) /\ Done(1)
  /\ req[1].body = <<169, 195>>
  /\ resp[1] = HelloResponse
  /\ LinesOf(1)[3] = InfoTag \o PayloadTag \o <<ReplacementChar, ReplacementChar>>

(* C7, as claimed: a payload line is written if and only if the method is  *)
(* POST: the log lines of a handled GET are exactly two (method/path,      *)
(* headers), those of a handled POST exactly three (method/path, headers,  *)
(* payload).                                                               *)
C7_ExactlyTwoOrThreeLines ==
  \A r \in Requests :
    /\ (\E i \in 1..Len(RecordsOf(r)) : IsPayloadLine(RecordsOf(r)[i])) => req[r].method = POST
    /\ (AtRoot(r, {GET}) /\ Done(r)) => Len(RecordsOf(r)) = 2
    /\ (AtRoot(r, {POST}) /\ Done(r)) => Len(RecordsOf(r)) = 3

(* C7: a payload line is written if and only if the method is POST:        *)
(* home() writes exactly two lines for a handled GET (method/path,         *)
(* headers) and no payload line even when it has a body, and exactly three *)
(* for a handled POST (method/path, headers, payload) even when its body   *)
(* is empty.  The server adds its access record after them, so that the    *)
(* log holds three records of a handled GET and four of a handled POST.    *)
C7_PayloadIffPost ==
  \A r \in Requests :
    /\ (\E i \in 1..Len(RecordsOf(r)) : IsPayloadLine(RecordsOf(r)[i])) => req[r].method = POST
    /\ (AtRoot(r, {GET}) /\ Done(r)) =>
         /\ Len(LinesOf(r)) = 2
         /\ IsRequestLine(LinesOf(r)[1]) /\ IsHeadersLine(LinesOf(r)[2])
         /\ Len(RecordsOf(r)) = 3
         /\ SubSeq(RecordsOf(r), 1, 2) = LinesOf(r)
         /\ IsAccessRecord(RecordsOf(r)[3], req[r], 200)
    /\ (AtRoot(r, {POST}) /\ Done(r)) =>
         /\ Len(LinesOf(r)) = 3
         /\ IsRequestLine(LinesOf(r)[1]) /\ IsHeadersLine(LinesOf(r)[2])
         /\ IsPayloadLine(LinesOf(r)[3])
         /\ Len(RecordsOf(r)) = 4
         /\ SubSeq(RecordsOf(r), 1, 3) = LinesOf(r)
         /\ IsAccessRecord(RecordsOf(r)[4], req[r], 200)

C7_Witness ==
  /\ AtRoot(1, {GET}) /\ Done(1)
  /\ req[1].body = <<98, 98>>
  /\ Len(LinesOf(1)) = 2
  /\ Len(RecordsOf(1)) = 3

\* the kinds of the lines home() has written for request r are, in order,
\* the first of: method/path, headers, payload
LinesInOrder(r) ==
  LET l == LinesOf(r)
  IN  /\ Len(l) <= 3
      /\ Len(l) >= 1 => IsRequestLine(l[1])
      /\ Len(l) >= 2 => IsHeadersLine(l[2])
      /\ Len(l) >= 3 => IsPayloadLine(l[3])

\* the number of lines home() writes for a request
LinesDue(q) == IF q.method = POST THEN 3 ELSE 2

(* C8: within a handled request the method/path line is written first,     *)
(* then the headers line, then (for POST only) the payload line; the       *)
(* answer is produced only after all of the request's lines are written;   *)
(* and every handled request is eventually answered.                       *)
C8_OrderAndResponse ==
  /\ [](\A r \in Requests :
          /\ LinesInOrder(r)
          /\ (AtRoot(r, {GET, POST, HEAD}) /\ resp[r] # NoResponse) =>
               /\ Len(LinesOf(r)) = LinesDue(req[r])
               /\ SubSeq(RecordsOf(r), 1, LinesDue(req[r])) = LinesOf(r))
  /\ \A r \in Requests :
       AtRoot(r, {GET, POST, HEAD}) ~> (Done(r) /\ resp[r].status = 200)

C8_Witness ==
  /\ AtRoot(1, {POST}) /\ Done(1) /\ resp[1] = HelloResponse
  /\ req[1].headers # <<>> /\ req[1].body # <<>>
  /\ Len(LinesOf(1)) = 3

IsPrefix(s, t) == Len(s) <= Len(t) /\ SubSeq(t, 1, Len(s)) = s

\* the lines home() writes for request q, from q alone
HandlerLines(q) ==
  <<InfoTag \o RequestTag \o q.method \o <<32>> \o q.path, HeadersLine(q)>> \o
  (IF q.method = POST THEN <<InfoTag \o PayloadTag \o BodyText(q)>> ELSE <<>>)

\* the texts a request brings with it in its headers' values and its body
Secrets(q) ==
  {ReprBodyOf[q.headers[i][2]] : i \in 1..Len(q.headers)} \cup
  (IF q.body = <<>> THEN {} ELSE {BodyText(q)})

\* whether text t occurs in the method, path, header names and values or
\* body of request q
Occurs(t, q) ==
  \/ Contains(q.method, t) \/ Contains(q.path, t) \/ Contains(BodyText(q), t)
  \/ \E i \in 1..Len(q.headers) :
       Contains(TitleOf[q.headers[i][1]], t) \/ Contains(ReprBodyOf[q.headers[i][2]], t)

(* C9: the handler is stateless.  Whatever requests came before or run     *)
(* beside it, the answer to a handled request is the same constant, the    *)
(* lines it writes are those its own method, path, headers and body        *)
(* determine, and no header value or body of another request appears in    *)
(* its lines, nor in the access record the server writes for it.           *)
C9_Stateless ==
  \A r \in Requests :
    AtRoot(r, {GET, POST, HEAD}) =>
      LET lines == LinesOf(r)
          due == HandlerLines(req[r])
          records == RecordsOf(r)
      IN  /\ resp[r] = IF ~Done(r) THEN NoResponse
                       ELSE IF req[r].method = HEAD THEN EmptyOkResponse
                       ELSE HelloResponse
          /\ IsPrefix(lines, due)
          /\ Done(r) => lines = due
          /\ IsPrefix(lines, records)
          /\ Done(r) =>
               /\ Len(records) = Len(due) + 1
               /\ IsAccessRecord(records[Len(records)], req[r], 200)
          /\ \A s \in Requests \ {r} :
               Arrived(s) =>
                 \A t \in Secrets(req[s]) :
                   ~Occurs(t, req[r]) =>
                     \A i \in 1..Len(records) : ~Contains(records[i], t)

C9_Witness ==
  /\ AtRoot(1, {POST}) /\ Done(1) /\ req[1].body = <<98, 195>>
  /\ AtRoot(2, {GET}) /\ Done(2) /\ req[2].headers = << <<NameCanon, ValueW>> >>
  /\ RequestLog[1].thread = 1 /\ RequestLog[2].thread = 2
  /\ RequestLog[Len(RequestLog)].thread = 1

\* the number of lines home() has written for request r when its thread
\* is at pc[r]
Written(r) ==
  IF ~AtRoot(r, {GET, POST, HEAD}) THEN 0
  ELSE CASE pc[r] = "L11" -> 0
         [] pc[r] = "L12" -> 1
         [] pc[r] \in {"L13", "L14"} -> 2
         [] OTHER -> LinesDue(req[r])

\* the number of access records the server has written for request r
AccessWritten(r) == IF Done(r) THEN 1 ELSE 0

RECURSIVE WrittenUpTo(_)
WrittenUpTo(n) ==
  IF n = 0 THEN 0 ELSE Written(n) + AccessWritten(n) + WrittenUpTo(n - 1)

AllDone == \A r \in Requests : Done(r)

(* C10, as claimed: when all requests are answered, the number of lines    *)
(* the requests have put in the log is 2 for each handled GET plus 3 for   *)
(* each handled POST.                                                      *)
C10_TotalCountsGetAndPost ==
  AllDone =>
    Len(RequestLog) = 2 * Cardinality({r \in Requests : AtRoot(r, {GET})})
                    + 3 * Cardinality({r \in Requests : AtRoot(r, {POST})})

(* C10: when requests are handled concurrently, a thread each, then in     *)
(* every interleaving each handled GET and POST is answered with status    *)
(* 200 and the fixed body, each request's own lines keep their order       *)
(* (method/path, headers, payload, then the access record of the server),  *)
(* and no line is lost or duplicated: after the start-up records of the    *)
(* server the log holds exactly the records written so far, in the end     *)
(* for each handled GET and HEAD the 2 lines of home() and for each        *)
(* handled POST its 3 lines, and one access record for every request,      *)
(* handled or not.                                                         *)
C10_Concurrent ==
  /\ \A r \in Requests :
       LET lines == LinesOf(r)
           records == RecordsOf(r)
       IN  /\ (AtRoot(r, {GET, POST}) /\ Done(r)) => resp[r] = HelloResponse
           /\ LinesInOrder(r)
           /\ Len(lines) = Written(r)
           /\ Len(records) = Written(r) + AccessWritten(r)
           /\ IsPrefix(lines, records)
           /\ Done(r) => IsAccessRecord(records[Len(records)], req[r], resp[r].status)
           /\ (AtRoot(r, {GET, POST, HEAD}) /\ resp[r] # NoResponse) =>
                Written(r) = LinesDue(req[r])
  /\ IsPrefix(StartupRecords, log)
  /\ Len(log) = Len(StartupRecords) + WrittenUpTo(MaxRequests)
  /\ AllDone =>
       Len(log) = Len(StartupRecords)
                + 3 * Cardinality({r \in Requests : AtRoot(r, {GET, HEAD})})
                + 4 * Cardinality({r \in Requests : AtRoot(r, {POST})})
                + Cardinality({r \in Requests : ~AtRoot(r, {GET, HEAD, POST})})

C10_Witness ==
  /\ AllDone
  /\ AtRoot(1, {POST}) /\ AtRoot(2, {HEAD})
  /\ Len(RequestLog) = 7
  /\ RequestLog[1].thread = 2 /\ RequestLog[2].thread = 1 /\ RequestLog[3].thread = 2

===========================================================================
